---------------------------- MODULE Spec2Model ----------------------------
(***************************************************************************)
(* A model of streamlit_app.py (Typeless Writer).                          *)
(*                                                                         *)
(* Text is a sequence of characters; a fixed literal of the source is one  *)
(* character of the model ("[fragment " is one element).  A Python object  *)
(* is a record tagged with its kind: None, str, dict (a function from keys *)
(* to values) or list (a sequence of values).  A fragment is the record    *)
(* [content |-> text]; its created_at stamp is read by none of the         *)
(* operations modelled here except the capture-mode caption.               *)
(*                                                                         *)
(* Two specifications:                                                     *)
(*   Spec      the application: one action per script run of main(), the   *)
(*             run being triggered by one widget interaction;              *)
(*   SpecCore  build_user_message, generate_with_gemini and                *)
(*             generate_with_openai applied to inputs drawn by Init.       *)
(***************************************************************************)
EXTENDS Naturals, Sequences, FiniteSets

VARIABLES
    data,          \* st.session_state.data
    file,          \* the contents of typeless_data.json, or Absent
    secrets,       \* st.secrets
    session,       \* st.session_state.result, or NoResult when the key is not set
    mode,          \* the value of the mode radio
    run,           \* what the latest script run did: requests, errors, display
    in_key,        \* SpecCore: the api_key argument
    in_fragments,  \* SpecCore: the fragments argument
    in_promotion,  \* SpecCore: the promotion argument
    in_reply,      \* SpecCore: what the backend answers
    out            \* SpecCore: the latest call and its outcome

appVars == <<data, file, secrets, session, mode, run>>
coreVars == <<in_key, in_fragments, in_promotion, in_reply, out>>
vars == <<data, file, secrets, session, mode, run,
          in_key, in_fragments, in_promotion, in_reply, out>>

---------------------------------------------------------------------------
(* Bounds of the model *)

MaxFragments == 2     \* fragments held by the projects, and in a fragments argument
MaxPosts == 2         \* social posts in a synthetic backend response

Contents == {<<"a">>, <<"b", "a">>}
Whitespace == {" ", "\n"}

RECURSIVE SeqsUpTo(_, _)
SeqsUpTo(S, n) ==
    IF n = 0 THEN {<<>>}
    ELSE LET shorter == SeqsUpTo(S, n - 1)
         IN  shorter \cup {Append(s, e) : s \in {t \in shorter : Len(t) = n - 1}, e \in S}

---------------------------------------------------------------------------
(* Python values *)

None == [kind |-> "None"]
Str(s) == [kind |-> "str", s |-> s]
Dict(f) == [kind |-> "dict", items |-> f]
List(q) == [kind |-> "list", elems |-> q]

\* dict.get(key): the value, or None when the key is missing
Get(d, key) == IF key \in DOMAIN d THEN d[key] ELSE None

\* the truth value of a Python value: None, "" and {} are false
Truthy(v) ==
    /\ v.kind # "None"
    /\ v.kind = "str" => v.s # <<>>
    /\ v.kind = "dict" => v.items # <<>>
    /\ v.kind = "list" => v.elems # <<>>

\* the truth value of a text held as such
NonEmpty(s) == s # <<>>

\* str(i) of a natural number
Digits == <<"0", "1", "2", "3", "4", "5", "6", "7", "8", "9">>
RECURSIVE IntToStr(_)
IntToStr(n) ==
    IF n < 10 THEN <<Digits[n + 1]>>
    ELSE IntToStr(n \div 10) \o <<Digits[(n % 10) + 1]>>

\* str.strip()
RECURSIVE LStrip(_)
LStrip(s) == IF s # <<>> /\ Head(s) \in Whitespace THEN LStrip(Tail(s)) ELSE s
RECURSIVE RStrip(_)
RStrip(s) ==
    IF s # <<>> /\ s[Len(s)] \in Whitespace THEN RStrip(SubSeq(s, 1, Len(s) - 1)) ELSE s
strip(s) == RStrip(LStrip(s))

---------------------------------------------------------------------------
(* build_user_message *)

SYSTEM_PROMPT == <<"SYSTEM_PROMPT">>
LeadIn == <<"LEAD_IN:", "\n", "\n">>

\* one turn of the loop, line 122: marker, index, newline, content, blank line
FragmentBlockZeroBased(i, fragment) ==
    <<"[fragment ">> \o IntToStr(i - 1) \o <<"]", "\n">> \o fragment.content \o <<"\n", "\n">>

FragmentBlock(i, fragment) ==
    <<"[fragment ">> \o IntToStr(i) \o <<"]", "\n">> \o fragment.content \o <<"\n", "\n">>

\* the loop over enumerate(fragments, 1): the message after the first n fragments
RECURSIVE FragmentLoop(_, _)
FragmentLoop(fragments, n) ==
    IF n = 0 THEN LeadIn
    ELSE FragmentLoop(fragments, n - 1) \o FragmentBlock(n, fragments[n])

\* the condition of line 124
PromotionIncludedLinkOnly(promotion) ==
    /\ Truthy(promotion)
    /\ Truthy(Get(promotion.items, "link"))

PromotionIncluded(promotion) ==
    /\ Truthy(promotion)
    /\ Truthy(Get(promotion.items, "link"))
    /\ Truthy(Get(promotion.items, "product_name"))

\* lines 125-128; promotion['product_name'] of a missing key raises KeyError
PromotionBlock(promotion) ==
    <<"\n", "---", "\n", "PROMOTION:", "\n">>
    \o <<"PRODUCT_NAME:">> \o promotion.items["product_name"].s \o <<"\n">>
    \o <<"LINK:">> \o promotion.items["link"].s \o <<"\n">>
    \o <<"WEAVE_IN_THE_LINK.", "\n">>

Returned(v) == [raised |-> FALSE, value |-> v]
Raised(e, msg) == [raised |-> TRUE, exc |-> e, msg |-> msg]

build_user_message(fragments, promotion) ==
    LET message == FragmentLoop(fragments, Len(fragments))
    IN  IF PromotionIncluded(promotion)
        THEN IF {"product_name", "link"} \subseteq DOMAIN promotion.items
             THEN Returned(message \o PromotionBlock(promotion))
             ELSE Raised("KeyError", <<"product_name">>)
        ELSE Returned(message)

---------------------------------------------------------------------------
(* The backend's response text and json.loads *)

\* A response text is a sequence of JSON tokens: punctuation, a string
\* literal, or a bare word that is no JSON at all.
P(c) == [t |-> "punct", v |-> c]
S(s) == [t |-> "str", v |-> s]
W(s) == [t |-> "word", v |-> s]

ParseFail == [ok |-> FALSE, val |-> None, next |-> 0]
Parsed(v, n) == [ok |-> TRUE, val |-> v, next |-> n]
IsPunct(toks, i, c) == i <= Len(toks) /\ toks[i] = P(c)

\* a JSON object keeps the last value of a repeated key
SetItem(d, key, v) == [k \in DOMAIN d \cup {key} |-> IF k = key THEN v ELSE d[k]]

AddElemReversed(q, v) == <<v>> \o q

\* a JSON array keeps its elements in the order of the text
AddElem(q, v) == Append(q, v)

RECURSIVE ParseValue(_, _), ParseMembers(_, _, _), ParseElems(_, _, _)
ParseValue(toks, i) ==
    IF i > Len(toks) THEN ParseFail
    ELSE IF toks[i].t = "str" THEN Parsed(Str(toks[i].v), i + 1)
    ELSE IF toks[i] = P("{")
         THEN IF IsPunct(toks, i + 1, "}") THEN Parsed(Dict(<<>>), i + 2)
              ELSE ParseMembers(toks, i + 1, <<>>)
    ELSE IF toks[i] = P("[")
         THEN IF IsPunct(toks, i + 1, "]") THEN Parsed(List(<<>>), i + 2)
              ELSE ParseElems(toks, i + 1, <<>>)
    ELSE ParseFail

ParseMembers(toks, i, acc) ==
    IF i + 1 > Len(toks) \/ toks[i].t # "str" \/ toks[i + 1] # P(":") THEN ParseFail
    ELSE LET r == ParseValue(toks, i + 2)
         IN  IF ~r.ok THEN ParseFail
             ELSE IF IsPunct(toks, r.next, ",")
                  THEN ParseMembers(toks, r.next + 1, SetItem(acc, toks[i].v, r.val))
             ELSE IF IsPunct(toks, r.next, "}")
                  THEN Parsed(Dict(SetItem(acc, toks[i].v, r.val)), r.next + 1)
             ELSE ParseFail

ParseElems(toks, i, acc) ==
    LET r == ParseValue(toks, i)
    IN  IF ~r.ok THEN ParseFail
        ELSE IF IsPunct(toks, r.next, ",")
             THEN ParseElems(toks, r.next + 1, AddElem(acc, r.val))
        ELSE IF IsPunct(toks, r.next, "]")
             THEN Parsed(List(AddElem(acc, r.val)), r.next + 1)
        ELSE ParseFail

\* json.loads(text)
json_loads(text) ==
    LET r == ParseValue(text, 1)
    IN  IF r.ok /\ r.next = Len(text) + 1 THEN Returned(r.val)
        ELSE Raised("JSONDecodeError", <<"Expecting value">>)

---------------------------------------------------------------------------
(* What the backend may answer to one request *)

\* the request failed: the SDK raises, carrying the backend's message
TransportError == [kind |-> "error", msg |-> <<"quota exceeded">>]
\* the request succeeded and the response carries this text
Text(t) == [kind |-> "text", text |-> t]
\* the request succeeded and the response carries no text: Gemini's response.text
\* raises ValueError, OpenAI's message.content is None
NoText == [kind |-> "notext"]

\* The response format SYSTEM_PROMPT asks for, as a text
DumpPost(p) ==
    <<P("{"), S("platform"), P(":"), S(p.platform), P(","),
      S("content"), P(":"), S(p.content), P("}")>>
RECURSIVE DumpPosts(_)
DumpPosts(posts) ==
    IF posts = <<>> THEN <<>>
    ELSE IF Len(posts) = 1 THEN DumpPost(posts[1])
    ELSE DumpPost(Head(posts)) \o <<P(",")>> \o DumpPosts(Tail(posts))
DumpArticle(v) ==
    <<S("article"), P(":"), P("{"), S("title"), P(":"), S(v.title), P(","),
      S("content"), P(":"), S(v.content), P("}")>>
DumpSocial(v) == <<S("socialPosts"), P(":"), P("[")>> \o DumpPosts(v.posts) \o <<P("]")>>
Dumps(v, articleFirst) ==
    <<P("{")>>
    \o (IF articleFirst THEN DumpArticle(v) \o <<P(",")>> \o DumpSocial(v)
        ELSE DumpSocial(v) \o <<P(",")>> \o DumpArticle(v))
    \o <<P("}")>>

Titles == {"T", "U"}
Bodies == {"C"}
Posts == {[platform |-> "FB", content |-> "P1"], [platform |-> "IG", content |-> "P2"]}

\* results of the GenerationResult shape: an article and at least one post
ShapedResults ==
    [title : Titles, content : Bodies, posts : SeqsUpTo(Posts, MaxPosts) \ {<<>>}]
ShapedTexts == {Dumps(v, first) : v \in ShapedResults, first \in BOOLEAN}

OneResult == [title |-> "T", content |-> "C", posts |-> <<[platform |-> "FB", content |-> "P1"]>>]
NoPosts == [title |-> "T", content |-> "C", posts |-> <<>>]
TextNoArticle == <<P("{")>> \o DumpSocial(OneResult) \o <<P("}")>>
TextNoSocialPosts == <<P("{")>> \o DumpArticle(OneResult) \o <<P("}")>>
TextEmptyPosts == Dumps(NoPosts, TRUE)
TextNotJson == <<W("Sorry"), W("I"), W("cannot")>>
TextTruncated == <<P("{"), S("article"), P(":"), P("{"), S("title")>>
TextTopLevelList == <<P("["), P("]")>>
TextExtraKey ==
    <<P("{")>> \o DumpArticle(OneResult) \o <<P(",")>> \o DumpSocial(OneResult)
    \o <<P(","), S("note"), P(":"), S("x"), P("}")>>
MalformedTexts ==
    {TextNoArticle, TextNoSocialPosts, TextEmptyPosts, TextNotJson, TextTruncated,
     TextTopLevelList, TextExtraKey}

Replies == {TransportError, NoText} \cup {Text(t) : t \in ShapedTexts \cup MalformedTexts}

---------------------------------------------------------------------------
(* generate_with_gemini and generate_with_openai *)

\* a call's outcome: the outbound requests it issued, and what it returned or raised
Outcome(requests, result) == [requests |-> requests, result |-> result]

generate_with_gemini(api_key, fragments, promotion, reply) ==
    LET user_message == build_user_message(fragments, promotion)
        full_prompt == SYSTEM_PROMPT \o <<"\n", "\n">> \o user_message.value
        request == [provider |-> "gemini", api_key |-> api_key,
                    model |-> "gemini-2.0-flash", payload |-> <<full_prompt>>,
                    json |-> "application/json"]
    IN  IF user_message.raised THEN Outcome(<<>>, user_message)
        ELSE IF reply.kind = "error" THEN Outcome(<<request>>, Raised("APIError", reply.msg))
        ELSE IF reply.kind = "notext"
             THEN Outcome(<<request>>, Raised("ValueError", <<"response.text: no valid Part">>))
        ELSE Outcome(<<request>>, json_loads(reply.text))

generate_with_openai(api_key, fragments, promotion, reply) ==
    LET user_message == build_user_message(fragments, promotion)
        request == [provider |-> "openai", api_key |-> api_key,
                    model |-> "gpt-4o-mini",
                    payload |-> <<SYSTEM_PROMPT, user_message.value>>,
                    json |-> "json_object"]
    IN  IF user_message.raised THEN Outcome(<<>>, user_message)
        ELSE IF reply.kind = "error" THEN Outcome(<<request>>, Raised("APIError", reply.msg))
        ELSE IF reply.kind = "notext"
             THEN Outcome(<<request>>, Raised("TypeError", <<"the JSON object must be str">>))
        ELSE Outcome(<<request>>, json_loads(reply.text))

---------------------------------------------------------------------------
(* The application's data *)

Absent == [kind |-> "absent"]
NoResult == [kind |-> "unset"]
Nothing == [kind |-> "nothing"]
NoProject == <<>>
NoChoice == [chosen |-> FALSE]
Choice(p) == [chosen |-> TRUE, name |-> p]

\* load_data() when the file does not exist.  projects is an insertion-ordered
\* dict: a sequence of [name, fragments] with no name twice.
DefaultData ==
    [projects |-> <<>>, current_project |-> <<>>,
     settings |-> [api_provider |-> "gemini", api_key |-> <<>>]]

\* list(data["projects"].keys())
ProjectList(d) == [i \in 1..Len(d.projects) |-> d.projects[i].name]
HasProject(d, name) == \E i \in 1..Len(d.projects) : d.projects[i].name = name
IndexOf(d, name) == CHOOSE i \in 1..Len(d.projects) : d.projects[i].name = name
\* data["projects"][name]["fragments"]
FragmentsOf(d, name) == d.projects[IndexOf(d, name)].fragments
\* data["projects"][name] = {"fragments": fragments}: in place when the key exists
SetProject(d, name, fragments) ==
    IF HasProject(d, name)
    THEN [d EXCEPT !.projects[IndexOf(d, name)].fragments = fragments]
    ELSE [d EXCEPT !.projects = Append(@, [name |-> name, fragments |-> fragments])]

\* the number of fragments of all projects
RECURSIVE CountFragments(_)
CountFragments(projects) ==
    IF projects = <<>> THEN 0
    ELSE Len(Head(projects).fragments) + CountFragments(Tail(projects))

\* list.insert(0, x) and list.pop(i) with i counted from 1
InsertFirst(q, x) == <<x>> \o q
Pop(q, i) == SubSeq(q, 1, i - 1) \o SubSeq(q, i + 1, Len(q))

\* get_api_settings(): (provider, key, using_secrets)
get_api_settings(sec) ==
    IF sec.available
    THEN LET provider == IF "API_PROVIDER" \in DOMAIN sec.items
                         THEN sec.items["API_PROVIDER"] ELSE "gemini"
             key == IF "API_KEY" \in DOMAIN sec.items THEN sec.items["API_KEY"] ELSE <<>>
         IN  IF NonEmpty(key)
             THEN [provider |-> provider, key |-> key, using |-> TRUE]
             ELSE [provider |-> None, key |-> None, using |-> FALSE]
    ELSE [provider |-> None, key |-> None, using |-> FALSE]

using_secrets(sec) == get_api_settings(sec).using

\* lines 251-261: the project the select box returns (the user's choice, else
\* the current project, else the first of the list); it becomes the current one
SelectedProject(d, choice) ==
    IF d.projects = <<>> THEN NoProject
    ELSE IF choice.chosen THEN choice.name
    ELSE IF HasProject(d, d.current_project) THEN d.current_project
    ELSE d.projects[1].name

AfterSelect(d, choice) ==
    IF d.projects = <<>> THEN d
    ELSE [d EXCEPT !.current_project = SelectedProject(d, choice)]

\* the data after the head of a script run in which no widget was touched
PlainRun(d) == AfterSelect(d, NoChoice)

---------------------------------------------------------------------------
(* The AI mode: the generate button and the result section *)

NoKeyError == <<"ENTER_AN_API_KEY_IN_THE_SIDEBAR">>
\* st.error(f"... {str(e)}") of line 391
GenerationFailed(msg) == <<"GENERATION_FAILED:">> \o msg

\* lines 342-366: the script reaches the generate button
ButtonShown(d, m, sec) ==
    /\ NonEmpty(SelectedProject(d, NoChoice))
    /\ m = "ai"
    /\ FragmentsOf(d, SelectedProject(d, NoChoice)) # <<>>
    /\ ~(~using_secrets(sec) /\ ~NonEmpty(d.settings.api_key))

\* lines 369-371: the promotion built from the two text inputs
PromotionOf(product_name, promo_link) ==
    IF NonEmpty(product_name) /\ NonEmpty(promo_link)
    THEN Dict([k \in {"product_name", "link"} |->
                 IF k = "product_name" THEN Str(product_name) ELSE Str(promo_link)])
    ELSE None

GenerateCallWithFallback(settings, fragments, promotion, reply) ==
    LET gemini == generate_with_gemini(settings.api_key, fragments, promotion, reply)
        openai == generate_with_openai(settings.api_key, fragments, promotion, reply)
        first == IF settings.api_provider = "gemini" THEN gemini ELSE openai
        second == IF settings.api_provider = "gemini" THEN openai ELSE gemini
    IN  IF first.result.raised
        THEN Outcome(first.requests \o second.requests, second.result)
        ELSE first

\* lines 375-386: the one adapter call of a press of the button
GenerateCall(settings, fragments, promotion, reply) ==
    IF settings.api_provider = "gemini"
    THEN generate_with_gemini(settings.api_key, fragments, promotion, reply)
    ELSE generate_with_openai(settings.api_key, fragments, promotion, reply)

StoreResultClearing(sess, result) == IF result.raised THEN NoResult ELSE result.value

\* line 388, skipped when the call raised
StoreResult(sess, result) == IF result.raised THEN sess ELSE result.value

\* f"{...}" of a parsed value
Format(v) == IF v.kind = "str" THEN <<v.s>> ELSE <<"repr">>

\* result.get("socialPosts", [])
SocialPosts(result) ==
    IF "socialPosts" \in DOMAIN result.items THEN result.items["socialPosts"] ELSE List(<<>>)

IsPost(post) == post.kind = "dict" /\ {"platform", "content"} \subseteq DOMAIN post.items

\* lines 395-419: what the result section draws, or the exception that ends the run
Display(sess) ==
    IF sess = NoResult THEN Nothing
    ELSE IF sess.kind # "dict" THEN Raised("TypeError", <<"article">>)
    ELSE IF "article" \notin DOMAIN sess.items THEN Raised("KeyError", <<"article">>)
    ELSE LET article == sess.items["article"]
             posts == SocialPosts(sess)
         IN  IF article.kind # "dict" THEN Raised("TypeError", <<"title">>)
             ELSE IF "title" \notin DOMAIN article.items THEN Raised("KeyError", <<"title">>)
             ELSE IF "content" \notin DOMAIN article.items
                  THEN Raised("KeyError", <<"content">>)
             ELSE IF posts.kind = "dict" /\ posts.items = <<>>
                  THEN Returned([article_content |->
                                   <<"# ">> \o Format(article.items["title"]) \o <<"\n", "\n">>
                                   \o Format(article.items["content"]),
                                 posts |-> <<>>])
             ELSE IF posts.kind # "list" THEN Raised("TypeError", <<"platform">>)
             ELSE IF \E i \in 1..Len(posts.elems) : ~IsPost(posts.elems[i])
                  THEN Raised("KeyError", <<"platform">>)
             ELSE Returned([article_content |->
                              <<"# ">> \o Format(article.items["title"]) \o <<"\n", "\n">>
                              \o Format(article.items["content"]),
                            posts |-> [i \in 1..Len(posts.elems) |->
                                         [platform |-> Format(posts.elems[i].items["platform"]),
                                          content |-> Format(posts.elems[i].items["content"])]]])

ResultSectionInsideButton(sess, pressed) == IF pressed THEN Display(sess) ELSE Nothing

\* line 394: the result section stands after the button's block, so it is drawn
\* whether or not the button was pressed in this run
ResultSection(sess, pressed) == Display(sess)

\* A script run from the mode radio on, without a press of the generate button
Render(d, sess, m, sec) ==
    LET current == SelectedProject(d, NoChoice)
        inAi == NonEmpty(current) /\ m = "ai"
        noKey == inAi /\ FragmentsOf(d, current) # <<>>
                 /\ ~using_secrets(sec) /\ ~NonEmpty(d.settings.api_key)
    IN  [pressed |-> FALSE,
         reply |-> Nothing,
         requests |-> <<>>,
         errors |-> IF noKey THEN <<NoKeyError>> ELSE <<>>,
         stored |-> FALSE,
         shown |-> IF ButtonShown(d, m, sec) THEN ResultSection(sess, FALSE) ELSE Nothing]

\* A script run in which the generate button was pressed: lines 368-419
RenderPressed(d, sess, call, reply) ==
    [pressed |-> TRUE,
     reply |-> reply,
     requests |-> call.requests,
     errors |-> IF call.result.raised THEN <<GenerationFailed(call.result.msg)>> ELSE <<>>,
     stored |-> ~call.result.raised,
     shown |-> ResultSection(StoreResult(sess, call.result), TRUE)]

---------------------------------------------------------------------------
(* The inputs the user and the environment may give *)

Providers == {"gemini", "openai"}
SettingsKeys == {<<>>, <<"k">>}
SecretsChoices ==
    {[available |-> FALSE, items |-> <<>>],
     [available |-> TRUE, items |-> [k \in {"API_KEY"} |-> <<"s">>]],
     [available |-> TRUE,
      items |-> [k \in {"API_PROVIDER", "API_KEY"} |->
                   IF k = "API_KEY" THEN <<"s">> ELSE "openai"]]}
Keys == {<<>>, <<"k">>}
FragmentLists == SeqsUpTo([content : Contents], MaxFragments)
PromotionValues == {Str(<<>>), Str(<<"X">>)}
Promotions ==
    {None} \cup {Dict(f) : f \in UNION {[K -> PromotionValues] :
                                          K \in SUBSET {"product_name", "link"}}}
ProjectNameInputs == {<<" ">>, <<"p">>, <<"q", " ">>}
FragmentInputs == {<<" ", "\n">>, <<"a">>, <<" ", "b", "a", "\n">>}
ProductNames == {<<>>, <<"Pro">>}
Links == {<<"https://x.io">>}
AppReplies ==
    {TransportError, Text(TextNotJson), Text(TextNoArticle), Text(TextEmptyPosts),
     Text(Dumps(OneResult, TRUE))}

---------------------------------------------------------------------------
NoCall == [fn |-> "none", requests |-> <<>>, result |-> Nothing]

---------------------------------------------------------------------------
(* Spec: the application.  Each action is one widget interaction and the    *)
(* script run, or runs, it triggers.                                       *)

Init ==
    /\ data = DefaultData
    /\ file = Absent
    /\ secrets \in SecretsChoices
    /\ session = NoResult
    /\ mode = "capture"
    /\ run = Render(DefaultData, NoResult, "capture", secrets)
    /\ in_key = <<>>
    /\ in_fragments = <<>>
    /\ in_promotion = None
    /\ in_reply = TransportError
    /\ out = NoCall

\* any interaction that only reruns the script (typing in a text input, ...)
Rerun ==
    /\ data' = PlainRun(data)
    /\ run' = Render(data', session, mode, secrets)
    /\ UNCHANGED <<file, secrets, session, mode, coreVars>>

\* lines 225-245: the sidebar's inputs and its save button
SaveSettings ==
    /\ ~using_secrets(secrets)
    /\ \E api_provider \in Providers, api_key \in SettingsKeys :
          LET saved == [data EXCEPT !.settings =
                          [api_provider |-> api_provider, api_key |-> api_key]]
          IN  /\ file' = saved
              /\ data' = PlainRun(saved)
              /\ run' = Render(data', session, mode, secrets)
    /\ UNCHANGED <<secrets, session, mode, coreVars>>

\* lines 253-258: the project select box
SelectProject ==
    /\ \E i \in 1..Len(data.projects) :
          /\ data' = AfterSelect(data, Choice(data.projects[i].name))
          /\ run' = Render(data', session, mode, secrets)
    /\ UNCHANGED <<file, secrets, session, mode, coreVars>>

\* lines 264-270: the new project's name and the create button
CreateProject ==
    /\ \E new_project \in ProjectNameInputs :
          LET d == PlainRun(data)
              name == strip(new_project)
              created == [SetProject(d, name, <<>>) EXCEPT !.current_project = name]
          IN  IF NonEmpty(name)
              THEN /\ file' = created
                   /\ data' = PlainRun(created)
                   /\ run' = Render(data', session, mode, secrets)
              ELSE /\ file' = file
                   /\ data' = d
                   /\ run' = Render(data', session, mode, secrets)
    /\ UNCHANGED <<secrets, session, mode, coreVars>>

\* lines 278-283: the mode radio
SwitchMode ==
    /\ data.projects # <<>>
    /\ \E m \in {"capture", "ai"} :
          /\ m # mode
          /\ mode' = m
          /\ data' = PlainRun(data)
          /\ run' = Render(data', session, m, secrets)
    /\ UNCHANGED <<file, secrets, session, coreVars>>

\* lines 292-311: the text area and the add button
AddFragment ==
    /\ data.projects # <<>>
    /\ mode = "capture"
    /\ \E new_fragment \in FragmentInputs :
          LET d == PlainRun(data)
              current == d.current_project
              content == strip(new_fragment)
              added == SetProject(d, current,
                                  InsertFirst(FragmentsOf(d, current), [content |-> content]))
          IN  IF NonEmpty(content)
              THEN /\ CountFragments(d.projects) < MaxFragments
                   /\ file' = added
                   /\ data' = PlainRun(added)
                   /\ run' = Render(data', session, mode, secrets)
              ELSE /\ file' = file
                   /\ data' = d
                   /\ run' = Render(data', session, mode, secrets)
    /\ UNCHANGED <<secrets, session, mode, coreVars>>

\* lines 331-334: a fragment's delete button
DeleteFragment ==
    /\ data.projects # <<>>
    /\ mode = "capture"
    /\ LET d == PlainRun(data)
           current == d.current_project
       IN  \E i \in 1..Len(FragmentsOf(d, current)) :
              LET deleted == SetProject(d, current, Pop(FragmentsOf(d, current), i))
              IN  /\ file' = deleted
                  /\ data' = PlainRun(deleted)
                  /\ run' = Render(data', session, mode, secrets)
    /\ UNCHANGED <<secrets, session, mode, coreVars>>

\* lines 349-391: the promotion inputs and the generate button
Generate ==
    /\ ButtonShown(data, mode, secrets)
    /\ \E product_name \in ProductNames, promo_link \in Links, reply \in AppReplies :
          LET d == PlainRun(data)
              fragments == FragmentsOf(d, d.current_project)
              promotion == PromotionOf(product_name, promo_link)
              call == GenerateCall(d.settings, fragments, promotion, reply)
          IN  /\ data' = d
              /\ session' = StoreResult(session, call.result)
              /\ run' = RenderPressed(d, session, call, reply)
    /\ UNCHANGED <<file, secrets, mode, coreVars>>

Next ==
    \/ Rerun
    \/ SaveSettings
    \/ SelectProject
    \/ CreateProject
    \/ SwitchMode
    \/ AddFragment
    \/ DeleteFragment
    \/ Generate

Spec == Init /\ [][Next]_vars

---------------------------------------------------------------------------
(* SpecCore: the prompt builder and the two adapters, called directly on   *)
(* inputs drawn by the initial state.                                      *)

InitCore ==
    /\ data = DefaultData
    /\ file = Absent
    /\ secrets = [available |-> FALSE, items |-> <<>>]
    /\ session = NoResult
    /\ mode = "capture"
    /\ run = Render(DefaultData, NoResult, "capture", secrets)
    /\ in_key \in Keys
    /\ in_fragments \in FragmentLists
    /\ in_promotion \in Promotions
    /\ in_reply \in Replies
    /\ out = NoCall

CallBuild ==
    /\ out' = [fn |-> "build_user_message", requests |-> <<>>,
               result |-> build_user_message(in_fragments, in_promotion)]
    /\ UNCHANGED <<appVars, in_key, in_fragments, in_promotion, in_reply>>

CallGemini ==
    /\ LET call == generate_with_gemini(in_key, in_fragments, in_promotion, in_reply)
       IN  out' = [fn |-> "generate_with_gemini", requests |-> call.requests,
                   result |-> call.result]
    /\ UNCHANGED <<appVars, in_key, in_fragments, in_promotion, in_reply>>

CallOpenai ==
    /\ LET call == generate_with_openai(in_key, in_fragments, in_promotion, in_reply)
       IN  out' = [fn |-> "generate_with_openai", requests |-> call.requests,
                   result |-> call.result]
    /\ UNCHANGED <<appVars, in_key, in_fragments, in_promotion, in_reply>>

NextCore ==
    \/ CallBuild
    \/ CallGemini
    \/ CallOpenai

SpecCore == InitCore /\ [][NextCore]_vars

---------------------------------------------------------------------------
(* Claims about the prompt builder and the adapters, checked under SpecCore *)

Marker(k) == <<"[fragment ">> \o IntToStr(k) \o <<"]", "\n">>
\* the length of the lead-in and of the blocks of the fragments before the k-th
RECURSIVE BlockStart(_, _)
BlockStart(F, k) ==
    IF k = 1 THEN Len(LeadIn)
    ELSE BlockStart(F, k - 1) + Len(Marker(k - 1)) + Len(F[k - 1].content) + 2

\* C1: for a non-empty fragment list of length N, build_user_message returns
\* the lead-in followed by exactly N blocks; the k-th block is the marker with
\* the index k, counted from 1, and the whole content of the k-th fragment, so
\* each fragment stands once, in input order; what follows the N blocks is
\* nothing or the promotion block.
C1_FragmentsRendered ==
    (out.fn = "build_user_message" /\ in_fragments # <<>>) =>
        /\ ~out.result.raised
        /\ LET msg == out.result.value
               N == Len(in_fragments)
               end == BlockStart(in_fragments, N + 1)
           IN  /\ Len(msg) >= end
               /\ SubSeq(msg, 1, Len(LeadIn)) = LeadIn
               /\ \A k \in 1..N :
                     SubSeq(msg, BlockStart(in_fragments, k) + 1,
                            BlockStart(in_fragments, k + 1))
                       = Marker(k) \o in_fragments[k].content \o <<"\n", "\n">>
               /\ Cardinality({i \in 1..Len(msg) : msg[i] = "[fragment "}) = N
               /\ Len(msg) > end => SubSeq(msg, end + 1, end + 2) = <<"\n", "---">>

C1_Witness ==
    /\ out.fn = "build_user_message"
    /\ Len(in_fragments) = 2
    /\ in_fragments[1] # in_fragments[2]
    /\ ~out.result.raised
    /\ Len(out.result.value) > Len(LeadIn)

\* the promotion is a dict holding a non-empty product_name and a non-empty link
CompletePromotion(promotion) ==
    /\ promotion.kind = "dict"
    /\ {"product_name", "link"} \subseteq DOMAIN promotion.items
    /\ promotion.items["product_name"].s # <<>>
    /\ promotion.items["link"].s # <<>>

\* C2: build_user_message never raises; it appends the promotion block (the
\* product name, the link, the weave-in instruction) when the promotion holds
\* a non-empty product_name and a non-empty link, and otherwise (no promotion,
\* or a product_name or link that is empty or missing) returns exactly the
\* message it returns for no promotion.
C2_PromotionAllOrNothing ==
    out.fn = "build_user_message" =>
        /\ ~out.result.raised
        /\ LET base == build_user_message(in_fragments, None).value
               msg == out.result.value
           IN  IF CompletePromotion(in_promotion)
               THEN msg = base
                          \o <<"\n", "---", "\n", "PROMOTION:", "\n", "PRODUCT_NAME:">>
                          \o in_promotion.items["product_name"].s
                          \o <<"\n", "LINK:">> \o in_promotion.items["link"].s
                          \o <<"\n", "WEAVE_IN_THE_LINK.", "\n">>
               ELSE msg = base

C2_Witness ==
    /\ out.fn = "build_user_message"
    /\ in_fragments # <<>>
    /\ in_promotion.kind = "dict"
    /\ DOMAIN in_promotion.items = {"link"}
    /\ in_promotion.items["link"].s # <<>>
    /\ ~out.result.raised
    /\ out.result.value = build_user_message(in_fragments, None).value

\* C5: no outbound request is issued for an empty fragment list, also when the
\* empty list reaches generate_with_gemini or generate_with_openai directly.
C5_NoRequestForEmptyList == in_fragments = <<>> => out.requests = <<>>

\* the value json.loads gives for a response of the GenerationResult shape
IsResultOf(r, v) ==
    /\ r.kind = "dict"
    /\ DOMAIN r.items = {"article", "socialPosts"}
    /\ r.items["article"].kind = "dict"
    /\ DOMAIN r.items["article"].items = {"title", "content"}
    /\ r.items["article"].items["title"] = Str(v.title)
    /\ r.items["article"].items["content"] = Str(v.content)
    /\ r.items["socialPosts"].kind = "list"
    /\ Len(r.items["socialPosts"].elems) = Len(v.posts)
    /\ \A i \in 1..Len(v.posts) :
          LET post == r.items["socialPosts"].elems[i]
          IN  /\ post.kind = "dict"
              /\ DOMAIN post.items = {"platform", "content"}
              /\ post.items["platform"] = Str(v.posts[i].platform)
              /\ post.items["content"] = Str(v.posts[i].content)

\* C8: for a response text that is the JSON of a GenerationResult, both
\* adapters return the same result, and it holds the response's title, content
\* and social posts unchanged, the posts in the response's order.
C8_RoundTrip ==
    \A v \in ShapedResults, first \in BOOLEAN :
        (/\ out.fn \in {"generate_with_gemini", "generate_with_openai"}
         /\ in_reply = Text(Dumps(v, first)))
        => /\ ~out.result.raised
           /\ IsResultOf(out.result.value, v)
           /\ generate_with_gemini(in_key, in_fragments, in_promotion, in_reply).result
                = out.result
           /\ generate_with_openai(in_key, in_fragments, in_promotion, in_reply).result
                = out.result

C8_Witness ==
    /\ out.fn = "generate_with_openai"
    /\ in_fragments # <<>>
    /\ in_reply = Text(Dumps([title |-> "U", content |-> "C",
                              posts |-> <<[platform |-> "IG", content |-> "P2"],
                                          [platform |-> "FB", content |-> "P1"]>>], FALSE))
    /\ ~out.result.raised
    /\ Len(out.result.value.items["socialPosts"].elems) = 2

---------------------------------------------------------------------------
(* Claims about the application, checked under Spec *)

\* the parsed value lacks the article key or the socialPosts key, or its
\* socialPosts is a list of no items
LacksShape(value) ==
    \/ value.kind # "dict"
    \/ "article" \notin DOMAIN value.items
    \/ "socialPosts" \notin DOMAIN value.items
    \/ value.items["socialPosts"] = List(<<>>)

\* C3: when the response text parses as JSON but lacks the article key or the
\* socialPosts key, or has a socialPosts list of no items, the generation ends
\* in a failure: the value is not returned and is never stored as the result.
C3_SchemaFailure ==
    /\ (/\ run.pressed
        /\ run.reply.kind = "text"
        /\ ~json_loads(run.reply.text).raised
        /\ LacksShape(json_loads(run.reply.text).value))
       => (~run.stored /\ run.errors # <<>>)
    /\ session # NoResult => ~LacksShape(session)

\* C4: no request is issued with an empty API key, whether the key comes from
\* the saved settings or from the Secrets.
C4_KeyNeverEmpty == \A i \in 1..Len(run.requests) : run.requests[i].api_key # <<>>

\* C6: a press of the generate button issues exactly one request, to one
\* provider, whether it succeeds or fails (no retry, no call of the other
\* provider); a run without a press issues none.
C6_OneRequestPerPress ==
    /\ run.pressed => (Len(run.requests) = 1 /\ run.requests[1].provider \in Providers)
    /\ ~run.pressed => run.requests = <<>>

C6_Witness ==
    /\ run.pressed
    /\ run.reply = TransportError
    /\ run.errors # <<>>
    /\ Len(run.requests) = 1
    /\ run.requests[1].provider = "openai"

\* the request failed, or its response text is no JSON
FailedReply(reply) ==
    \/ reply.kind = "error"
    \/ reply.kind = "text" /\ json_loads(reply.text).raised
UnderlyingMessage(reply) ==
    IF reply.kind = "error" THEN reply.msg ELSE json_loads(reply.text).msg

\* C7: a generation whose request fails, or whose response text is no JSON,
\* shows in the same run one "generation failed" error that carries the
\* underlying message and changes nothing: the stored result, every project's
\* fragments, the settings and the saved file are as before the press.
C7_FailureChangesNothing ==
    [][(run'.pressed /\ FailedReply(run'.reply)) =>
          /\ run'.errors = << <<"GENERATION_FAILED:">> \o UnderlyingMessage(run'.reply) >>
          /\ ~run'.stored
          /\ session' = session
          /\ data'.projects = data.projects
          /\ data'.settings = data.settings
          /\ file' = file]_vars

C7_Witness ==
    /\ run.pressed
    /\ run.reply = Text(TextNotJson)
    /\ run.errors # <<>>
    /\ session # NoResult
    /\ run.shown # Nothing

C10_EffectiveSettingsUsed ==
    \A i \in 1..Len(run.requests) :
        IF using_secrets(secrets)
        THEN /\ run.requests[i].provider = get_api_settings(secrets).provider
             /\ run.requests[i].api_key = get_api_settings(secrets).key
        ELSE /\ run.requests[i].provider = data.settings.api_provider
             /\ run.requests[i].api_key = data.settings.api_key

=============================================================================
